---- MODULE Spec2Model ----
(***************************************************************************)
(* Model of src/src/sales_analyzer.py: the KPI computation, the grouped    *)
(* aggregations, the customer segmentation and the report assembly, run    *)
(* over a record store shaped as src/src/data_generator.py builds it.      *)
(*                                                                         *)
(* Money is an integer number of cents, margins are hundredths of a        *)
(* percent, a date is <<year, month, day>>.  A float that pandas leaves    *)
(* unrounded (a KPI mean or ratio) is an exact fraction [num, den]; NaN is *)
(* the fraction 0/0.                                                       *)
(***************************************************************************)
EXTENDS Integers, Sequences, FiniteSets, TLC

VARIABLES df, call, top_n, result, exception

vars == <<df, call, top_n, result, exception>>

(***************************************************************************)
(* Bounds of the model.                                                    *)
(***************************************************************************)
\* Largest number of records in the store.
MaxRecords == 3

\* Largest order count fed to segment_customer in SpecSegment.
MaxOrders == 8

(***************************************************************************)
(* Arithmetic helpers.                                                     *)
(***************************************************************************)
Abs(x) == IF x < 0 THEN -x ELSE x

RECURSIVE GCD(_, _)
GCD(a, b) == IF b = 0 THEN Abs(a) ELSE GCD(b, a % b)

\* A Python/numpy float that is the quotient of two integers, kept exact.
\* Division by zero on numpy scalars yields NaN (with a warning), as does the
\* mean of an empty column.
NaN == [num |-> 0, den |-> 0]

Frac(n, d) ==
    IF d = 0 THEN NaN
    ELSE LET g == GCD(n, d) IN [num |-> n \div g, den |-> d \div g]

\* round(): n/d rounded to the nearest integer, halves to the even neighbour.
RoundHalfEven(n, d) ==
    LET q == n \div d
        r == n % d
    IN  IF 2 * r < d THEN q
        ELSE IF 2 * r > d THEN q + 1
        ELSE IF q % 2 = 0 THEN q ELSE q + 1

\* DataFrame.round(2) of the value n/d expressed in cents (or in hundredths
\* of a percent): the nearest whole number of hundredths.
Round2(n, d) == RoundHalfEven(n, d)

RECURSIVE SumSeq(_)
SumSeq(s) == IF s = <<>> THEN 0 ELSE Head(s) + SumSeq(Tail(s))

\* Column of a frame (a sequence of rows) as a sequence of values.
Column(frame, col) == [i \in DOMAIN frame |-> frame[i][col]]

Values(frame, col) == {frame[i][col] : i \in DOMAIN frame}

(***************************************************************************)
(* Calendar: datetime ordinals and monthly periods.                        *)
(***************************************************************************)
IsLeap(y) == (y % 4 = 0) /\ ((y % 100 # 0) \/ (y % 400 = 0))

DaysInMonth(y, m) ==
    IF m = 2 THEN (IF IsLeap(y) THEN 29 ELSE 28)
    ELSE IF m \in {4, 6, 9, 11} THEN 30 ELSE 31

RECURSIVE DaysBeforeMonth(_, _)
DaysBeforeMonth(y, m) ==
    IF m = 1 THEN 0 ELSE DaysBeforeMonth(y, m - 1) + DaysInMonth(y, m - 1)

\* Proleptic Gregorian ordinal of a date, the scale on which two timestamps
\* are subtracted.
ToOrdinal(date) ==
    LET y == date[1] - 1
    IN  365 * y + (y \div 4) - (y \div 100) + (y \div 400)
        + DaysBeforeMonth(date[1], date[2]) + date[3]

\* Series.dt.to_period('M'): the date truncated to its year and month.
ToPeriodM(date) == <<date[1], date[2]>>

\* Periods compare by their ordinal (months since an epoch).
PeriodOrdinal(p) == p[1] * 12 + (p[2] - 1)

(***************************************************************************)
(* The record store, as generate_sales_data builds it.                     *)
(***************************************************************************)
\* products: name -> category, price and cost (cents).
Products ==
    ("Laptop"       :> [category |-> "Électronique", price |-> 89900, cost |-> 60000]) @@
    ("Keyboard"     :> [category |-> "Accessoires",  price |-> 7900,  cost |-> 4000])

ProductList == <<"Keyboard", "Laptop">>

\* statuses: delivered, in progress, cancelled.
StatusList == <<"Livrée", "En cours", "Annulée">>

CustomerList == <<"C1000", "C1001">>

QuantityList == <<1>>

\* When and where an order is placed: <<date, region, channel>>.
VenueList ==
    << <<<<2023, 12, 31>>, "Nord", "Online">>,
       <<<<2024, 1, 31>>,  "Sud",  "Magasin">> >>

Statuses == {StatusList[i] : i \in DOMAIN StatusList}

\* One row of the dataset: the dictionary appended for record i.
SaleRecord(i, customer, product, quantity, venue, status) ==
    LET unit_price  == Products[product].price
        total_price == unit_price * quantity
        unit_cost   == Products[product].cost
        total_cost  == unit_cost * quantity
        profit      == total_price - total_cost
        margin      == IF total_price > 0
                       THEN Round2(profit * 10000, total_price) ELSE 0
    IN  [ order_id       |-> i,
          date           |-> venue[1],
          customer_id    |-> customer,
          product        |-> product,
          category       |-> Products[product].category,
          quantity       |-> quantity,
          total_price    |-> total_price,
          profit         |-> profit,
          margin_percent |-> margin,
          region         |-> venue[2],
          channel        |-> venue[3],
          status         |-> status ]

\* The choices made for one record, numbered from 0: customer, product,
\* quantity, venue and status.
NumInputs ==
    Len(CustomerList) * Len(ProductList) * Len(QuantityList) * Len(VenueList)
      * Len(StatusList)

InputAt(k) ==
    LET k1 == k \div Len(StatusList)
        k2 == k1 \div Len(VenueList)
        k3 == k2 \div Len(QuantityList)
        k4 == k3 \div Len(ProductList)
    IN  << CustomerList[(k4 % Len(CustomerList)) + 1],
           ProductList[(k3 % Len(ProductList)) + 1],
           QuantityList[(k2 % Len(QuantityList)) + 1],
           VenueList[(k1 % Len(VenueList)) + 1],
           StatusList[(k % Len(StatusList)) + 1] >>

RecordInputs == {InputAt(k) : k \in 0..(NumInputs - 1)}

\* The datasets of n rows, each taken once up to the order of its rows: the
\* rows are listed by the number of their choices.  (The analyzer reads no
\* row position: it groups by sorted key and aggregates with sum, mean,
\* count, nunique and max.)
StoresOfSize(n) ==
    { [i \in 1..n |-> SaleRecord(i, InputAt(s[i])[1], InputAt(s[i])[2],
                                 InputAt(s[i])[3], InputAt(s[i])[4], InputAt(s[i])[5])] :
        s \in { t \in [1..n -> 0..(NumInputs - 1)] :
                  \A i \in 1..(n - 1) : t[i] <= t[i + 1] } }

(***************************************************************************)
(* Data-frame operations.                                                  *)
(***************************************************************************)
\* Natural order of the string keys that occur (code-point order of str).
KeyOrder ==
    << "Accessoires", "C1000", "C1001", "Keyboard", "Laptop",
       "Magasin", "Nord", "Occasionnel", "Online", "Régulier", "Stockage", "Sud",
       "VIP", "Électronique" >>

StrRank(k) == CHOOSE i \in DOMAIN KeyOrder : KeyOrder[i] = k

\* Variant of FilterStatus with the comparison negated.
FilterStatus_negated(frame, st) == SelectSeq(frame, LAMBDA r : r.status # st)

\* df[df['status'] == st]: a new frame holding the matching rows, in order.
FilterStatus(frame, st) == SelectSeq(frame, LAMBDA r : r.status = st)

\* The rows of one group of frame.groupby(col).
Group(frame, col, k) == SelectSeq(frame, LAMBDA r : r[col] = k)

\* Series.nunique()
NUnique(frame, col) == Cardinality(Values(frame, col))

\* All orderings of the elements of the set S.
RECURSIVE Orderings(_)
Orderings(S) ==
    IF S = {} THEN {<<>>}
    ELSE UNION { { <<x>> \o p : p \in Orderings(S \ {x}) } : x \in S }

\* Order of the values of a group-by column: periods by ordinal, strings in
\* their natural order.
KeyRank(col, k) == IF col = "year_month" THEN PeriodOrdinal(k) ELSE StrRank(k)

\* The keys of frame.groupby(col), in the sorted order groupby yields them
\* (sort=True).
GroupKeys(frame, col) ==
    CHOOSE s \in Orderings(Values(frame, col)) :
        \A i, j \in DOMAIN s : i < j => KeyRank(col, s[i]) < KeyRank(col, s[j])

\* Variant of SortValuesDescending with ascending=True.
SortValuesAscending(frame, col) ==
    { [i \in DOMAIN frame |-> frame[o[i]]] : o \in
        { p \in Orderings(DOMAIN frame) :
            \A i \in 1..(Len(frame) - 1) : frame[p[i]][col] <= frame[p[i + 1]][col] } }

\* sort_values(col, ascending=False) with the default kind='quicksort', which
\* is not stable: every arrangement of the rows with col non-increasing is a
\* possible outcome.
SortValuesDescending(frame, col) ==
    { [i \in DOMAIN frame |-> frame[o[i]]] : o \in
        { p \in Orderings(DOMAIN frame) :
            \A i \in 1..(Len(frame) - 1) : frame[p[i]][col] >= frame[p[i + 1]][col] } }

\* DataFrame.head(n)
FrameHead(frame, n) == SubSeq(frame, 1, IF n < Len(frame) THEN n ELSE Len(frame))

(***************************************************************************)
(* calculate_kpis                                                          *)
(***************************************************************************)
\* Series.mean(): NaN on an empty column.
Mean(frame, col) == Frac(SumSeq(Column(frame, col)), Len(frame))

\* The exception calculate_kpis raises on d, or "none".  len(...) / len(df)
\* divides two Python ints, which raises on a zero divisor.
calculate_kpis_raises(d) ==
    IF Len(d) = 0 THEN "ZeroDivisionError" ELSE "none"

\* Variant of calculate_kpis_value with the revenue summed over df.
calculate_kpis_value_unfiltered(d) ==
    LET df_delivered == FilterStatus(d, "Livrée")
    IN  [ chiffre_affaires |-> SumSeq(Column(d, "total_price")),
          profit_total     |-> SumSeq(Column(df_delivered, "profit")),
          marge_moyenne    |-> Mean(df_delivered, "margin_percent"),
          nombre_ventes    |-> Len(df_delivered),
          panier_moyen     |-> Mean(df_delivered, "total_price"),
          nombre_clients   |-> NUnique(df_delivered, "customer_id"),
          ca_par_client    |-> Frac(SumSeq(Column(df_delivered, "total_price")),
                                    NUnique(df_delivered, "customer_id")),
          taux_annulation  |-> Frac(Len(FilterStatus(d, "Annulée")) * 100, Len(d)) ]

\* The dictionary calculate_kpis returns on d (when it raises nothing).
calculate_kpis_value(d) ==
    LET df_delivered == FilterStatus(d, "Livrée")
    IN  [ chiffre_affaires |-> SumSeq(Column(df_delivered, "total_price")),
          profit_total     |-> SumSeq(Column(df_delivered, "profit")),
          marge_moyenne    |-> Mean(df_delivered, "margin_percent"),
          nombre_ventes    |-> Len(df_delivered),
          panier_moyen     |-> Mean(df_delivered, "total_price"),
          nombre_clients   |-> NUnique(df_delivered, "customer_id"),
          ca_par_client    |-> Frac(SumSeq(Column(df_delivered, "total_price")),
                                    NUnique(df_delivered, "customer_id")),
          taux_annulation  |-> Frac(Len(FilterStatus(d, "Annulée")) * 100, Len(d)) ]

(***************************************************************************)
(* Grouped aggregations                                                    *)
(***************************************************************************)
\* Variant of AggSum aggregating with 'mean'.
AggSum_mean(g, col) == Round2(SumSeq(Column(g, col)), Len(g))

\* Aggregates of one column of a group, after .round(2).
AggSum(g, col) == Round2(SumSeq(Column(g, col)), 1)

AggMean(g, col) == Round2(SumSeq(Column(g, col)), Len(g))

category_row(k, g) ==
    [ key             |-> k,
      CA_total        |-> AggSum(g, "total_price"),
      CA_moyen        |-> AggMean(g, "total_price"),
      Nb_ventes       |-> Len(g),
      Profit_total    |-> AggSum(g, "profit"),
      Marge_pct       |-> AggMean(g, "margin_percent"),
      Quantite_totale |-> AggSum(g, "quantity") ]

region_row(k, g) ==
    [ key          |-> k,
      CA_total     |-> AggSum(g, "total_price"),
      CA_moyen     |-> AggMean(g, "total_price"),
      Profit       |-> AggSum(g, "profit"),
      Nb_commandes |-> Len(g),
      Nb_clients   |-> NUnique(g, "customer_id") ]

channel_row(k, g) ==
    [ key       |-> k,
      CA_total  |-> AggSum(g, "total_price"),
      CA_moyen  |-> AggMean(g, "total_price"),
      Profit    |-> AggSum(g, "profit"),
      Marge_pct |-> AggMean(g, "margin_percent"),
      Nb_ventes |-> Len(g) ]

product_row(k, g) ==
    [ key             |-> k,
      CA_total        |-> AggSum(g, "total_price"),
      Profit          |-> AggSum(g, "profit"),
      Marge_pct       |-> AggMean(g, "margin_percent"),
      Quantite_vendue |-> AggSum(g, "quantity"),
      Nb_commandes    |-> Len(g) ]

month_row(k, g) ==
    [ key          |-> k,
      CA           |-> AggSum(g, "total_price"),
      Profit       |-> AggSum(g, "profit"),
      Nb_commandes |-> Len(g),
      Nb_clients   |-> NUnique(g, "customer_id") ]

\* Series.max() of a date column; NaT when the column is empty.
MaxDate(frame) ==
    IF Len(frame) = 0 THEN "NaT"
    ELSE CHOOSE m \in Values(frame, "date") :
            \A e \in Values(frame, "date") : ToOrdinal(e) <= ToOrdinal(m)

\* Mean, in hundredths after .round(2), of a column of whole numbers.
AggMeanWhole(g, col) == Round2(SumSeq(Column(g, col)) * 100, Len(g))

customer_row(k, g) ==
    [ key               |-> k,
      derniere_commande |-> MaxDate(g),
      nb_commandes      |-> Len(g),
      ca_total          |-> AggSum(g, "total_price") ]

\* Variant of segment_row with 'sum' in place of each 'mean'.
segment_row_sums(k, g) ==
    [ key                |-> k,
      ca_total_sum       |-> AggSum(g, "ca_total"),
      ca_total_mean      |-> AggSum(g, "ca_total"),
      nb_commandes_sum   |-> AggSum(g, "nb_commandes"),
      nb_commandes_mean  |-> AggSum(g, "nb_commandes") * 100,
      recence_jours_mean |-> AggSum(g, "recence_jours") * 100 ]

segment_row(k, g) ==
    [ key                |-> k,
      ca_total_sum       |-> AggSum(g, "ca_total"),
      ca_total_mean      |-> AggMean(g, "ca_total"),
      nb_commandes_sum   |-> AggSum(g, "nb_commandes"),
      nb_commandes_mean  |-> AggMeanWhole(g, "nb_commandes"),
      recence_jours_mean |-> AggMeanWhole(g, "recence_jours") ]

\* The aggregated row of the group g with key k, with the columns of the
\* .agg(...) of the group-by on col.
AggRow(col, k, g) ==
    CASE col = "category"    -> category_row(k, g)
      [] col = "region"      -> region_row(k, g)
      [] col = "channel"     -> channel_row(k, g)
      [] col = "product"     -> product_row(k, g)
      [] col = "year_month"  -> month_row(k, g)
      [] col = "customer_id" -> customer_row(k, g)
      [] col = "segment"     -> segment_row(k, g)

\* groupby(col).agg(...) as a frame: one row per key, in key order.
GroupAgg(frame, col) ==
    LET keys == GroupKeys(frame, col)
    IN  [i \in DOMAIN keys |-> AggRow(col, keys[i], Group(frame, col, keys[i]))]

\* The frames analyze_by_category may return on d.
analyze_by_category_out(d) ==
    SortValuesDescending(
        GroupAgg(FilterStatus(d, "Livrée"), "category"),
        "CA_total")

\* Variant of analyze_by_region_out grouping df without the status filter.
analyze_by_region_out_unfiltered(d) ==
    SortValuesDescending(GroupAgg(d, "region"), "CA_total")

analyze_by_region_out(d) ==
    SortValuesDescending(
        GroupAgg(FilterStatus(d, "Livrée"), "region"),
        "CA_total")

analyze_by_channel_out(d) ==
    SortValuesDescending(
        GroupAgg(FilterStatus(d, "Livrée"), "channel"),
        "CA_total")

\* Variant of product_analysis_full without the sort_values.
product_analysis_full_unsorted(d) ==
    { GroupAgg(FilterStatus(d, "Livrée"), "product") }

\* The product aggregation before the .head(top_n) cut.
product_analysis_full(d) ==
    SortValuesDescending(
        GroupAgg(FilterStatus(d, "Livrée"), "product"),
        "CA_total")

analyze_by_product_out(d, n) ==
    { FrameHead(f, n) : f \in product_analysis_full(d) }

\* df_delivered['year_month'] = df_delivered['date'].dt.to_period('M')
WithYearMonth(frame) ==
    [i \in DOMAIN frame |->
        [c \in DOMAIN frame[i] \cup {"year_month"} |->
            IF c = "year_month" THEN ToPeriodM(frame[i].date) ELSE frame[i][c]]]

\* The frame analyze_time_trends returns on d: no sort_values, so the rows
\* stay in the key order of the groupby.
analyze_time_trends_out(d) ==
    GroupAgg(WithYearMonth(FilterStatus(d, "Livrée")), "year_month")

(***************************************************************************)
(* analyze_customer_segments                                               *)
(***************************************************************************)
\* Thresholds of segment_customer: order counts, and spend in cents.
VipOrders == 5

VipSpend == 200000

RegularOrders == 3

\* Variant of segment_customer with inclusive VIP thresholds.
segment_customer_inclusive(row) ==
    IF row.nb_commandes >= VipOrders \/ row.ca_total >= VipSpend THEN "VIP"
    ELSE IF row.nb_commandes >= RegularOrders THEN "Régulier"
    ELSE "Occasionnel"

segment_customer(row) ==
    IF row.nb_commandes > VipOrders \/ row.ca_total > VipSpend THEN "VIP"
    ELSE IF row.nb_commandes >= RegularOrders THEN "Régulier"
    ELSE "Occasionnel"

\* (max_date - derniere_commande).dt.days
DaysBetween(later, earlier) == ToOrdinal(later) - ToOrdinal(earlier)

\* Variant of customer_metrics_of grouping df without the status filter.
customer_metrics_of_unfiltered(d) ==
    LET metrics      == GroupAgg(d, "customer_id")
        max_date     == MaxDate(d)
    IN  [i \in DOMAIN metrics |->
            [c \in DOMAIN metrics[i] \cup {"recence_jours", "segment"} |->
                IF c = "recence_jours"
                THEN DaysBetween(max_date, metrics[i].derniere_commande)
                ELSE IF c = "segment" THEN segment_customer(metrics[i])
                ELSE metrics[i][c]]]

\* Variant of customer_metrics_of with max_date taken over df['date'].
customer_metrics_of_store_max_date(d) ==
    LET metrics  == GroupAgg(FilterStatus(d, "Livrée"), "customer_id")
        max_date == MaxDate(d)
    IN  [i \in DOMAIN metrics |->
            [c \in DOMAIN metrics[i] \cup {"recence_jours", "segment"} |->
                IF c = "recence_jours"
                THEN DaysBetween(max_date, metrics[i].derniere_commande)
                ELSE IF c = "segment" THEN segment_customer(metrics[i])
                ELSE metrics[i][c]]]

\* customer_metrics with the recence_jours and segment columns added.
customer_metrics_of(d) ==
    LET df_delivered == FilterStatus(d, "Livrée")
        metrics      == GroupAgg(df_delivered, "customer_id")
        max_date     == MaxDate(df_delivered)
        with_recence ==
            [i \in DOMAIN metrics |->
                [c \in DOMAIN metrics[i] \cup {"recence_jours"} |->
                    IF c = "recence_jours"
                    THEN DaysBetween(max_date, metrics[i].derniere_commande)
                    ELSE metrics[i][c]]]
    IN  [i \in DOMAIN with_recence |->
            [c \in DOMAIN with_recence[i] \cup {"segment"} |->
                IF c = "segment" THEN segment_customer(with_recence[i])
                ELSE with_recence[i][c]]]

segment_summary_of(customer_metrics) ==
    GroupAgg(customer_metrics, "segment")

\* The pair analyze_customer_segments returns on d.
analyze_customer_segments_out(d) ==
    LET customer_metrics == customer_metrics_of(d)
    IN  <<customer_metrics, segment_summary_of(customer_metrics)>>

(***************************************************************************)
(* generate_analysis_report                                                *)
(***************************************************************************)
\* top_n of analyze_by_product: its default, and the report's argument.
DefaultTopN == 10

ReportTopN == 5

\* The dictionaries generate_analysis_report may return on d (when
\* calculate_kpis raises nothing).
generate_analysis_report_out(d) ==
    { [ kpis     |-> calculate_kpis_value(d),
        category |-> cat_analysis,
        region   |-> region_analysis,
        channel  |-> channel_analysis,
        product  |-> product_analysis ] :
        cat_analysis \in analyze_by_category_out(d),
        region_analysis \in analyze_by_region_out(d),
        channel_analysis \in analyze_by_channel_out(d),
        product_analysis \in analyze_by_product_out(d, ReportTopN) }

(***************************************************************************)
(* The caller: one analysis call at a time on the loaded store.            *)
(***************************************************************************)
\* Arguments given for top_n.
TopNs == {1, ReportTopN, DefaultTopN}

Init ==
    /\ \E n \in 0..MaxRecords : df \in StoresOfSize(n)
    /\ call = "none"
    /\ top_n = DefaultTopN
    /\ result = <<>>
    /\ exception = "none"

Returns(fn, value) ==
    /\ call' = fn
    /\ result' = value
    /\ exception' = "none"

Raises(fn, exc) ==
    /\ call' = fn
    /\ result' = <<>>
    /\ exception' = exc

calculate_kpis ==
    /\ call = "none"
    /\ IF calculate_kpis_raises(df) # "none"
       THEN Raises("calculate_kpis", calculate_kpis_raises(df))
       ELSE Returns("calculate_kpis", calculate_kpis_value(df))
    /\ UNCHANGED <<df, top_n>>

analyze_by_category ==
    /\ call = "none"
    /\ \E out \in analyze_by_category_out(df) : Returns("analyze_by_category", out)
    /\ UNCHANGED <<df, top_n>>

analyze_by_region ==
    /\ call = "none"
    /\ \E out \in analyze_by_region_out(df) : Returns("analyze_by_region", out)
    /\ UNCHANGED <<df, top_n>>

analyze_by_channel ==
    /\ call = "none"
    /\ \E out \in analyze_by_channel_out(df) : Returns("analyze_by_channel", out)
    /\ UNCHANGED <<df, top_n>>

analyze_by_product ==
    /\ call = "none"
    /\ \E n \in TopNs :
         /\ top_n' = n
         /\ \E out \in analyze_by_product_out(df, n) : Returns("analyze_by_product", out)
    /\ UNCHANGED df

\* Variant of analyze_time_trends that sets the year_month column on df.
analyze_time_trends_inplace ==
    /\ call = "none"
    /\ Returns("analyze_time_trends", analyze_time_trends_out(df))
    /\ df' = WithYearMonth(df)
    /\ UNCHANGED top_n

\* The year_month column is set on df_delivered, the frame the filter built;
\* df keeps its columns.
analyze_time_trends ==
    /\ call = "none"
    /\ Returns("analyze_time_trends", analyze_time_trends_out(df))
    /\ df' = df
    /\ UNCHANGED top_n

analyze_customer_segments ==
    /\ call = "none"
    /\ Returns("analyze_customer_segments", analyze_customer_segments_out(df))
    /\ UNCHANGED <<df, top_n>>

generate_analysis_report ==
    /\ call = "none"
    /\ IF calculate_kpis_raises(df) # "none"
       THEN Raises("generate_analysis_report", calculate_kpis_raises(df))
       ELSE \E out \in generate_analysis_report_out(df) :
                Returns("generate_analysis_report", out)
    /\ UNCHANGED <<df, top_n>>

\* The caller takes the outcome and is ready for the next call.
Return ==
    /\ call # "none"
    /\ call' = "none"
    /\ result' = <<>>
    /\ exception' = "none"
    /\ top_n' = DefaultTopN
    /\ UNCHANGED df

Next ==
    \/ calculate_kpis
    \/ analyze_by_category
    \/ analyze_by_region
    \/ analyze_by_channel
    \/ analyze_by_product
    \/ analyze_time_trends
    \/ analyze_customer_segments
    \/ generate_analysis_report
    \/ Return

Spec == Init /\ [][Next]_vars

(***************************************************************************)
(* segment_customer on its own: rows of customer metrics drawn from a      *)
(* grid of order counts and spends around the thresholds.                  *)
(***************************************************************************)
SpendSamples == {7900, 30000, 50000, 199999, 200000, 200001, 250000}

InitSegment ==
    /\ df = <<>>
    /\ call = "none"
    /\ top_n = DefaultTopN
    /\ exception = "none"
    /\ result \in { [nb_commandes |-> n, ca_total |-> s] :
                      n \in 1..MaxOrders, s \in SpendSamples }

\* customer_metrics.apply(segment_customer, axis=1) on one row.
apply_segment_customer ==
    /\ call = "none"
    /\ call' = "segment_customer"
    /\ result' = [ nb_commandes |-> result.nb_commandes,
                   ca_total     |-> result.ca_total,
                   segment      |-> segment_customer(result) ]
    /\ UNCHANGED <<df, top_n, exception>>

NextSegment == apply_segment_customer

SpecSegment == InitSegment /\ [][NextSegment]_vars

(***************************************************************************)
(* Properties.                                                             *)
(***************************************************************************)
Segments == {"VIP", "Régulier", "Occasionnel"}

\* Positions of the delivered records of the store, read off the status
\* column directly.
DeliveredRecords == {i \in DOMAIN df : df[i].status = "Livrée"}

\* Sum of f over the finite set S (f a function defined on S).
RECURSIVE SumOver(_, _)
SumOver(f, S) ==
    IF S = {} THEN 0
    ELSE LET x == CHOOSE y \in S : TRUE IN f[x] + SumOver(f, S \ {x})

DeliveredTotal == SumOver([i \in DOMAIN df |-> df[i].total_price], DeliveredRecords)

\* The ordered decision on an order count n and a spend s (cents).
SegmentRule(n, s) ==
    IF n > 5 \/ s > 200000 THEN "VIP"
    ELSE IF 3 <= n /\ n <= 5 THEN "Régulier"
    ELSE "Occasionnel"

\* C1: every customer metrics row (order count n, total spend s) is VIP if
\* n > 5 or s > 2000, otherwise Regular if 3 <= n <= 5, otherwise Occasional;
\* (6, 500) and (1, 2500) are VIP, (4, 300) is Regular, and (5, 2000) is not
\* VIP.
C1_SegmentDecision ==
    call = "segment_customer" =>
        LET n == result.nb_commandes
            s == result.ca_total
        IN  /\ result.segment = SegmentRule(n, s)
            /\ (n = 6 /\ s = 50000) => result.segment = "VIP"
            /\ (n = 1 /\ s = 250000) => result.segment = "VIP"
            /\ (n = 4 /\ s = 30000) => result.segment = "Régulier"
            /\ (n = 5 /\ s = 200000) => result.segment # "VIP"

C1_Witness ==
    /\ call = "segment_customer"
    /\ result.nb_commandes = 5
    /\ result.ca_total = 200000
    /\ result.segment = "Régulier"

\* C2: the customers in the output of analyze_customer_segments are exactly
\* the customers with a delivered record, each appears once with one segment
\* of {VIP, Regular, Occasional}, and the assignment is a function of the
\* delivered records alone (so a second run on the store gives it again).
C2_SegmentationTotal ==
    call = "analyze_customer_segments" =>
        LET customer_metrics == result[1]
            orders(c) == {i \in DeliveredRecords : df[i].customer_id = c}
            spend(c)  == SumOver([i \in DOMAIN df |-> df[i].total_price], orders(c))
        IN  /\ exception = "none"
            /\ {customer_metrics[i].key : i \in DOMAIN customer_metrics}
                 = {df[i].customer_id : i \in DeliveredRecords}
            /\ \A i, j \in DOMAIN customer_metrics :
                 customer_metrics[i].key = customer_metrics[j].key => i = j
            /\ \A i \in DOMAIN customer_metrics :
                 /\ customer_metrics[i].segment \in Segments
                 /\ customer_metrics[i].segment
                      = SegmentRule(Cardinality(orders(customer_metrics[i].key)),
                                    spend(customer_metrics[i].key))

\* One customer in the output, the other has a record but none delivered.
C2_Witness ==
    /\ call = "analyze_customer_segments"
    /\ Len(result[1]) = 1
    /\ result[1][1].segment = "Occasionnel"
    /\ \E i \in DOMAIN df :
         /\ df[i].status # "Livrée"
         /\ df[i].customer_id # result[1][1].key

AggregationCalls ==
    { "analyze_by_category", "analyze_by_region", "analyze_by_channel",
      "analyze_by_product", "analyze_time_trends" }

\* Sum of the summed-total-price column of the returned frame.
GroupedTotal ==
    SumSeq(Column(result, IF call = "analyze_time_trends" THEN "CA" ELSE "CA_total"))

\* C3 as stated: with a delivered record in the store, for each of category,
\* region, channel, product (as analyze_by_product returns it) and month, the
\* per-group sums of total price add up to the total price of the delivered
\* records.
C3_PartitionEveryDimension ==
    (call \in AggregationCalls /\ DeliveredRecords # {}) =>
        GroupedTotal = DeliveredTotal

\* C3 amended: the same, where for product it is required that top_n is at
\* least the number of distinct products with a delivered record.
C3_PartitionUncut ==
    ( /\ call \in AggregationCalls
      /\ DeliveredRecords # {}
      /\ call = "analyze_by_product" =>
           top_n >= Cardinality({df[i].product : i \in DeliveredRecords}) )
    => GroupedTotal = DeliveredTotal

C3_Witness ==
    /\ call = "analyze_by_product"
    /\ top_n = ReportTopN
    /\ Len(result) = 2
    /\ Cardinality(DeliveredRecords) = 3

\* C4: with no delivered record, calculate_kpis gives an explicit
\* undefined/error indicator for panier_moyen and ca_par_client: no division
\* by zero crash, and neither NaN nor 0 returned as the value.
C4_KpisUndefinedExplicit ==
    (call = "calculate_kpis" /\ DeliveredRecords = {}) =>
        /\ exception # "ZeroDivisionError"
        /\ exception = "none" =>
             /\ result.panier_moyen \notin {NaN, Frac(0, 1)}
             /\ result.ca_par_client \notin {NaN, Frac(0, 1)}

\* r strictly before its successor in every adjacent pair of rows.
StrictlyAscendingByMonth(frame) ==
    \A i \in 1..(Len(frame) - 1) :
        \/ frame[i].key[1] < frame[i + 1].key[1]
        \/ /\ frame[i].key[1] = frame[i + 1].key[1]
           /\ frame[i].key[2] < frame[i + 1].key[2]

SortedCalls ==
    { "analyze_by_category", "analyze_by_region", "analyze_by_channel",
      "analyze_by_product" }

\* C5 as stated: time-trend rows are strictly ascending by year-month, and
\* category, region, channel and product rows are strictly descending by
\* CA_total.
C5_StrictOrdering ==
    /\ call = "analyze_time_trends" => StrictlyAscendingByMonth(result)
    /\ call \in SortedCalls =>
         \A i \in 1..(Len(result) - 1) : result[i].CA_total > result[i + 1].CA_total

\* C5 amended: time-trend rows are strictly ascending by year-month;
\* category, region, channel and product rows are descending by CA_total,
\* where groups with equal CA_total follow one another.
C5_Ordering ==
    /\ call = "analyze_time_trends" => StrictlyAscendingByMonth(result)
    /\ call \in SortedCalls =>
         \A i \in 1..(Len(result) - 1) : result[i].CA_total >= result[i + 1].CA_total

\* Two regions with equal CA_total in the output.
C5_Witness ==
    /\ call = "analyze_by_region"
    /\ Len(result) = 2
    /\ result[1].CA_total = result[2].CA_total

\* The record inputs whose status is not delivered.
NonDeliveredInputs == {c \in RecordInputs : c[5] # "Livrée"}

RemoveAt(d, i) == SubSeq(d, 1, i - 1) \o SubSeq(d, i + 1, Len(d))

\* The stores one edit away from d with the same delivered records: a
\* non-delivered record removed, or one added.  The edits chain from any
\* store to any other with the same delivered records, through stores that
\* are themselves initial states (up to row order and order_id, which
\* calculate_kpis does not read).
StoreVariants(d) ==
    { RemoveAt(d, i) : i \in {j \in DOMAIN d : d[j].status # "Livrée"} }
    \cup { Append(d, SaleRecord(Len(d) + 1, c[1], c[2], c[3], c[4], c[5])) :
             c \in NonDeliveredInputs }

\* calculate_kpis returns on store o what it returned on df, for the metrics
\* named.
SameKpis(o, metrics) ==
    /\ calculate_kpis_raises(o) = "none"
    /\ \A m \in metrics : calculate_kpis_value(o)[m] = result[m]

KpiNames ==
    { "chiffre_affaires", "profit_total", "marge_moyenne", "nombre_ventes",
      "panier_moyen", "nombre_clients", "ca_par_client", "taux_annulation" }

C7_ReportExposesEverySubResult ==
    (call = "generate_analysis_report" /\ exception = "none") =>
        /\ {"category", "region", "channel", "product"} \subseteq DOMAIN result
        /\ \E t, m, s \in DOMAIN result \ {"kpis", "category", "region", "channel", "product"} :
             /\ Cardinality({t, m, s}) = 3
             /\ result[t] = analyze_time_trends_out(df)
             /\ result[m] = analyze_customer_segments_out(df)[1]
             /\ result[s] = analyze_customer_segments_out(df)[2]

\* C8: no call changes the store: records, columns and values stay as
\* loaded.
C8_StoreReadOnly == [][df' = df]_vars

\* analyze_time_trends has returned rows for a store that is as loaded.
C8_Witness ==
    /\ call = "analyze_time_trends"
    /\ Len(result) = 2
    /\ \A i \in DOMAIN df : "year_month" \notin DOMAIN df[i]

SummaryColumns ==
    { "key", "ca_total_sum", "ca_total_mean", "nb_commandes_sum",
      "nb_commandes_mean", "recence_jours_mean" }

\* The five aggregates of the summary row of segment seg, over the customers
\* of customer_metrics assigned to seg.
SummaryRowRight(customer_metrics, row) ==
    LET members == {i \in DOMAIN customer_metrics : customer_metrics[i].segment = row.key}
        total(col) == SumOver([i \in DOMAIN customer_metrics |-> customer_metrics[i][col]],
                              members)
        n == Cardinality(members)
    IN  /\ members # {}
        /\ row.ca_total_sum = total("ca_total")
        /\ row.ca_total_mean = RoundHalfEven(total("ca_total"), n)
        /\ row.nb_commandes_sum = total("nb_commandes")
        /\ row.nb_commandes_mean = RoundHalfEven(100 * total("nb_commandes"), n)
        /\ row.recence_jours_mean = RoundHalfEven(100 * total("recence_jours"), n)

SummaryRight(customer_metrics, summary) ==
    /\ {summary[i].key : i \in DOMAIN summary}
         = {customer_metrics[i].segment : i \in DOMAIN customer_metrics}
    /\ \A i, j \in DOMAIN summary : summary[i].key = summary[j].key => i = j
    /\ \A i \in DOMAIN summary : SummaryRowRight(customer_metrics, summary[i])

C10_EmptySegmentation ==
    (call = "analyze_customer_segments" /\ DeliveredRecords = {}) =>
        /\ exception = "none"
        /\ result = << <<>>, <<>> >>

\* Segmentation has run on a store that holds records, none delivered.
C10_Witness ==
    /\ call = "analyze_customer_segments"
    /\ Len(df) > 0
    /\ DeliveredRecords = {}
    /\ result[1] = <<>>

\* The grouping column of each aggregation call.
DimensionOf(fn) ==
    CASE fn = "analyze_by_category" -> "category"
      [] fn = "analyze_by_region"   -> "region"
      [] fn = "analyze_by_channel"  -> "channel"
      [] fn = "analyze_by_product"  -> "product"

\* The value of record i of the store in the dimension of the call fn: a
\* column of the record, or the year and month of its date.
DimensionValue(fn, i) ==
    IF fn = "analyze_time_trends" THEN <<df[i].date[1], df[i].date[2]>>
    ELSE df[i][DimensionOf(fn)]

DeliveredValues(fn) == {DimensionValue(fn, i) : i \in DeliveredRecords}

ResultKeys == {result[i].key : i \in DOMAIN result}

\* C11: for category, region, channel, product (before the top-N cut) and
\* month, the group keys of the output are exactly the dimension values of
\* the delivered records, each once: a value met only in pending or
\* cancelled records is absent, and with no delivered record the result is
\* empty and nothing is raised.
C11_KeysAreDeliveredValues ==
    call \in AggregationCalls =>
        /\ exception = "none"
        /\ \A i, j \in DOMAIN result : result[i].key = result[j].key => i = j
        /\ ResultKeys \subseteq DeliveredValues(call)
        /\ (call # "analyze_by_product" \/ top_n >= Cardinality(DeliveredValues(call)))
             => ResultKeys = DeliveredValues(call)
        /\ DeliveredRecords = {} => result = <<>>

\* One region in the output; the other region occurs in the store, in
\* records that are not delivered.
C11_Witness ==
    /\ call = "analyze_by_region"
    /\ Len(result) = 1
    /\ \E i \in DOMAIN df : df[i].status # "Livrée" /\ df[i].region # result[1].key

LatestOrdinal(S) ==
    CHOOSE m \in {ToOrdinal(df[i].date) : i \in S} :
        \A i \in S : ToOrdinal(df[i].date) <= m

\* C13: with a delivered record in the store, each customer's recency is the
\* number of days from that customer's latest delivered order to the latest
\* delivered order of the store; so it is >= 0, some customer has recency 0,
\* and the dates of records not delivered play no part.
C13_Recency ==
    (call = "analyze_customer_segments" /\ DeliveredRecords # {}) =>
        LET customer_metrics == result[1]
            orders(c) == {i \in DeliveredRecords : df[i].customer_id = c}
        IN  /\ \A i \in DOMAIN customer_metrics :
                 /\ customer_metrics[i].recence_jours
                      = LatestOrdinal(DeliveredRecords)
                          - LatestOrdinal(orders(customer_metrics[i].key))
                 /\ customer_metrics[i].recence_jours >= 0
            /\ \E i \in DOMAIN customer_metrics : customer_metrics[i].recence_jours = 0

\* Two customers, one last served on 2023-12-31 and one on 2024-01-31 (31
\* days later), and a record of the first customer dated 2024-01-31 that is
\* not delivered.
C13_Witness ==
    /\ call = "analyze_customer_segments"
    /\ Len(result[1]) = 2
    /\ {result[1][1].recence_jours, result[1][2].recence_jours} = {0, 31}
    /\ \E i \in DOMAIN df, j \in DOMAIN result[1] :
         /\ df[i].status # "Livrée"
         /\ df[i].customer_id = result[1][j].key
         /\ df[i].date = <<2024, 1, 31>>
         /\ result[1][j].recence_jours = 31

\* Summed total price of the delivered records of product p.
ProductTotal(p) ==
    SumOver([i \in DOMAIN df |-> df[i].total_price],
            {i \in DeliveredRecords : df[i].product = p})

\* C14: analyze_by_product(df, top_n) returns min(top_n, number of products
\* with a delivered record) rows, which are the first rows of the product
\* aggregation sorted by CA_total descending: each row carries the summed
\* total price of its product, and no product left out has a larger sum than
\* a product in the result.
C14_TopProducts ==
    call = "analyze_by_product" =>
        LET products == DeliveredValues("analyze_by_product")
            n        == Cardinality(products)
        IN  /\ Len(result) = IF top_n < n THEN top_n ELSE n
            /\ \A i, j \in DOMAIN result : result[i].key = result[j].key => i = j
            /\ \A i \in DOMAIN result :
                 /\ result[i].key \in products
                 /\ result[i].CA_total = ProductTotal(result[i].key)
            /\ \A i \in 1..(Len(result) - 1) : result[i].CA_total >= result[i + 1].CA_total
            /\ \A p \in products \ ResultKeys :
                 \A i \in DOMAIN result : ProductTotal(p) <= result[i].CA_total

\* Two products delivered, top_n = 1: one row, a product is left out.
C14_Witness ==
    /\ call = "analyze_by_product"
    /\ top_n = 1
    /\ Len(result) = 1
    /\ Cardinality(DeliveredValues("analyze_by_product")) = 2

====
